---- MODULE Spec2Model ----
(***************************************************************************)
(* Model of src/browser-utils.ts: the credential resolver                  *)
(* (getClaudeCodeApiKey, getAnthropicApiKey), the browser locator          *)
(* (findLocalChrome), the profile provisioner (getChromeUserDataDir,       *)
(* prepareChromeProfile) and the capture service (takeScreenshot).         *)
(*                                                                         *)
(* Strings are sequences of tokens; the empty string is <<>>.  Two strings *)
(* are equal iff their token sequences are equal, so every literal of the  *)
(* source is cut at the same places wherever it occurs.  A value that may  *)
(* be undefined is a record [set, val].                                    *)
(***************************************************************************)
EXTENDS Integers, Sequences, FiniteSets, TLC

VARIABLES
    platform,      \* os.platform()
    env,           \* process.env: variable name -> [set, val]
    files,         \* small text files: path -> [state, content]
    cmdOut,        \* what the platform's secret-store command does when run
    credResult,    \* outcome of the last getAnthropicApiKey() call
    exists,        \* set of paths for which existsSync is true (browser locator)
    chromeResult,  \* outcome of the last findLocalChrome() call
    srcProfile,    \* the directory <user data dir>/Default of the real browser
    workspace,     \* plugin root -> state of <root>/.chrome-profile
    prepLog,       \* history of the prepareChromeProfile calls
    image,         \* the decoded screenshot the browser hands back
    shotDir,       \* whether <root>/agent/browser_screenshots exists
    shotResult     \* outcome of the last takeScreenshot() call

vars == <<platform, env, files, cmdOut, credResult, exists, chromeResult,
          srcProfile, workspace, prepLog, image, shotDir, shotResult>>

credVars   == <<files, cmdOut, credResult>>
chromeVars == <<exists, chromeResult>>
prepVars   == <<srcProfile, workspace, prepLog>>
shotVars   == <<image, shotDir, shotResult>>

-----------------------------------------------------------------------------
(* JavaScript values and strings                                           *)

Unset == [set |-> FALSE, val |-> <<>>]
Val(s) == [set |-> TRUE, val |-> s]

\* x || '' for an environment variable
OrEmpty(v) == IF v.set /\ v.val # <<>> THEN v.val ELSE <<>>

\* `${x}` inside a template literal: undefined prints as the word undefined
Template(v) == IF v.set THEN v.val ELSE <<"undefined">>

WhiteSpace == {" ", "\n"}
PREFIX == "sk-ant-"

RECURSIVE TrimStart(_)
TrimStart(s) ==
    IF s # <<>> /\ Head(s) \in WhiteSpace THEN TrimStart(Tail(s)) ELSE s

RECURSIVE TrimEnd(_)
TrimEnd(s) ==
    IF s # <<>> /\ s[Len(s)] \in WhiteSpace
    THEN TrimEnd(SubSeq(s, 1, Len(s) - 1)) ELSE s

\* String.prototype.trim
Trim(s) == TrimEnd(TrimStart(s))

\* s.startsWith('sk-ant-')
StartsWithPrefix(s) == s # <<>> /\ Head(s) = PREFIX

\* path.join: empty segments are dropped
Join(a, b) == a \o b

-----------------------------------------------------------------------------
(* JSON.parse on the documents the model knows; anything else is a         *)
(* SyntaxError.  A parsed value is [type, hasKey, key] where key is the    *)
(* value of the apiKey property: [type |-> "string", str] or a number.     *)

JThrow == [threw |-> TRUE, type |-> "none", hasKey |-> FALSE,
           key |-> [type |-> "undefined", str |-> <<>>]]
JValue(t, h, k) == [threw |-> FALSE, type |-> t, hasKey |-> h, key |-> k]
JUndef == [type |-> "undefined", str |-> <<>>]
JNum == [type |-> "number", str |-> <<>>]
JStr(s) == [type |-> "string", str |-> s]

JSONParse(s) ==
    IF s = <<"null">> THEN JValue("null", FALSE, JUndef)
    ELSE IF s = <<"{", "}">> THEN JValue("object", FALSE, JUndef)
    ELSE IF Len(s) >= 3 /\ s[1] = "{\"apiKey\":" /\ s[Len(s)] = "}"
    THEN LET inner == SubSeq(s, 2, Len(s) - 1) IN
         IF inner = <<"5">> THEN JValue("object", TRUE, JNum)
         ELSE IF Len(inner) >= 2 /\ inner[1] = "\"" /\ inner[Len(inner)] = "\""
              THEN JValue("object", TRUE, JStr(SubSeq(inner, 2, Len(inner) - 1)))
              ELSE JThrow
    ELSE JThrow

-----------------------------------------------------------------------------
(* Credential resolver                                                     *)

\* os.platform(); "linux" stands for every platform of the else branches
Platforms == {"darwin", "win32", "linux"}

\* Outcome of a block of code: the value it returns (unset: it fell through
\* without returning), whether an exception left it, the number of
\* subprocesses it spawned, the paths it probed and the paths it read.
Outcome(ret, threw, spawned, probes, reads) ==
    [ret |-> ret, threw |-> threw, spawned |-> spawned,
     probes |-> probes, reads |-> reads]

\* try { body } catch {}: the exception is dropped and control falls through
Catch(r) == IF r.threw THEN [r EXCEPT !.threw = FALSE, !.ret = Unset] ELSE r

\* bug variant: the outer try block is missing, the exception escapes
OuterCatchMissing(r) == r

\* the outer try { ... } catch {} of getClaudeCodeApiKey
OuterCatch(r) == Catch(r)

\* the try { ... } catch {} around the Windows and secret-tool commands
InnerCatch(r) == Catch(r)

\* the try { ... } catch {} around the reading of one config file
FileCatch(r) == Catch(r)

\* bug variant: any non-empty command output is taken for a credential
AcceptResultUnchecked(result) ==
    IF result # <<>> THEN Val(result) ELSE Unset

\* if (result && result.startsWith('sk-ant-')) return result;
AcceptResult(result) ==
    IF result # <<>> /\ StartsWithPrefix(result) THEN Val(result) ELSE Unset

\* execSync(<secret-store command>).trim() followed by the prefix test
SecretStoreQuery(probes, reads) ==
    IF cmdOut.threw
    THEN Outcome(Unset, TRUE, 1, probes, reads)
    ELSE Outcome(AcceptResult(Trim(cmdOut.out)), FALSE, 1, probes, reads)

\* parsed.apiKey && parsed.apiKey.startsWith('sk-ant-') ? return parsed.apiKey
AcceptParsed(parsed) ==
    IF parsed.threw \/ parsed.type = "null"
    THEN [threw |-> TRUE, ret |-> Unset]           \* SyntaxError / TypeError
    ELSE IF ~parsed.hasKey \/ parsed.key.type = "undefined"
    THEN [threw |-> FALSE, ret |-> Unset]
    ELSE IF parsed.key.type = "number"
    THEN [threw |-> TRUE, ret |-> Unset]           \* startsWith is not a function
    ELSE IF parsed.key.str # <<>> /\ StartsWithPrefix(parsed.key.str)
    THEN [threw |-> FALSE, ret |-> Val(parsed.key.str)]
    ELSE [threw |-> FALSE, ret |-> Unset]

\* the body of the try block for one existing config file
ReadConfig(path) ==
    IF files[path].state = "unreadable"
    THEN [threw |-> TRUE, ret |-> Unset]           \* readFileSync throws
    ELSE LET content == Trim(files[path].content) IN
         IF StartsWithPrefix(content)
         THEN [threw |-> FALSE, ret |-> Val(content)]
         ELSE AcceptParsed(JSONParse(content))

HomeOrEmpty  == OrEmpty(env["HOME"])
ConfigHome ==
    IF env["XDG_CONFIG_HOME"].set /\ env["XDG_CONFIG_HOME"].val # <<>>
    THEN env["XDG_CONFIG_HOME"].val
    ELSE Join(HomeOrEmpty, <<".config">>)

\* bug variant: the XDG-style path is probed first
configPathsXdgFirst ==
    << Join(ConfigHome, <<"claude-code", "credentials">>),
       Join(HomeOrEmpty, <<".claude", "credentials">>),
       Join(HomeOrEmpty, <<".config", "claude-code", "credentials">>) >>

configPaths ==
    << Join(HomeOrEmpty, <<".claude", "credentials">>),
       Join(HomeOrEmpty, <<".config", "claude-code", "credentials">>),
       Join(ConfigHome, <<"claude-code", "credentials">>) >>

\* for (const configPath of configPaths) { ... } then the secret-tool query
RECURSIVE ProbeConfigs(_, _, _)
ProbeConfigs(paths, probes, reads) ==
    IF paths = <<>>
    THEN InnerCatch(SecretStoreQuery(probes, reads))
    ELSE LET p == Head(paths) IN
         IF files[p].state = "absent"
         THEN ProbeConfigs(Tail(paths), Append(probes, p), reads)
         ELSE LET r == FileCatch(ReadConfig(p)) IN
              IF r.ret.set
              THEN Outcome(r.ret, FALSE, 0, Append(probes, p), Append(reads, p))
              ELSE ProbeConfigs(Tail(paths), Append(probes, p), Append(reads, p))

LinuxLookup == ProbeConfigs(configPaths, <<>>, <<>>)

getClaudeCodeApiKey ==
    OuterCatch(
        IF platform = "darwin" THEN SecretStoreQuery(<<>>, <<>>)
        ELSE IF platform = "win32" THEN InnerCatch(SecretStoreQuery(<<>>, <<>>))
        ELSE LinuxLookup)

NoCred == [set |-> FALSE, apiKey |-> <<>>, source |-> "none"]
Cred(k, src) == [set |-> TRUE, apiKey |-> k, source |-> src]

\* if (process.env.ANTHROPIC_API_KEY)
EnvKeyTruthy == env["ANTHROPIC_API_KEY"].set /\ env["ANTHROPIC_API_KEY"].val # <<>>

\* bug variant: the secret store is consulted before the environment
getAnthropicApiKeyStoreFirst ==
    LET r == getClaudeCodeApiKey IN
    [called |-> TRUE, threw |-> r.threw,
     cred |-> IF ~r.threw /\ r.ret.set /\ r.ret.val # <<>>
              THEN Cred(r.ret.val, "claude-code")
              ELSE IF EnvKeyTruthy
                   THEN Cred(env["ANTHROPIC_API_KEY"].val, "env") ELSE NoCred,
     spawned |-> r.spawned, probes |-> r.probes, reads |-> r.reads]

getAnthropicApiKey ==
    IF EnvKeyTruthy
    THEN [called |-> TRUE, threw |-> FALSE,
          cred |-> Cred(env["ANTHROPIC_API_KEY"].val, "env"),
          spawned |-> 0, probes |-> <<>>, reads |-> <<>>]
    ELSE LET r == getClaudeCodeApiKey IN
         [called |-> TRUE, threw |-> r.threw,
          cred |-> IF ~r.threw /\ r.ret.set /\ r.ret.val # <<>>
                   THEN Cred(r.ret.val, "claude-code") ELSE NoCred,
          spawned |-> r.spawned, probes |-> r.probes, reads |-> r.reads]

NotCalled == [called |-> FALSE, threw |-> FALSE, cred |-> NoCred,
              spawned |-> 0, probes |-> <<>>, reads |-> <<>>]

EnvVars == {"ANTHROPIC_API_KEY", "HOME", "XDG_CONFIG_HOME", "LOCALAPPDATA",
            "PROGRAMFILES", "PROGRAMFILES(X86)"}
NoEnv == [v \in EnvVars |-> Unset]

EnvKeyValues == {Unset, Val(<<>>), Val(<<"sk-ant-", "test123">>),
                 Val(<<"not-a-key">>)}
HomeValues == {Unset, Val(<<"/home/u">>)}
XdgValues == {Unset, Val(<<>>), Val(<<"/xdg">>)}

FileContents ==
    { <<"sk-ant-", "abc">>,
      <<" ", "sk-ant-", "abc", "\n">>,
      <<>>,
      <<"garbage">>,
      <<"sk-", "abc">>,
      <<"null">>,
      <<"{", "}">>,
      <<"{\"apiKey\":", "\"", "sk-ant-", "json", "\"", "}", "\n">>,
      <<"{\"apiKey\":", "\"", "sk-", "json", "\"", "}">>,
      <<"{\"apiKey\":", "5", "}">> }
FileStates ==
    {[state |-> "absent", content |-> <<>>],
     [state |-> "unreadable", content |-> <<>>]}
    \cup {[state |-> "file", content |-> c] : c \in FileContents}

CmdOutcomes ==
    {[threw |-> TRUE, out |-> <<>>]}
    \cup {[threw |-> FALSE, out |-> o] :
            o \in { <<"sk-ant-", "keychain", "\n">>, <<>>, <<"\n">>,
                    <<"secret not found", "\n">>, <<"sk-", "other", "\n">> }}

Range(s) == {s[i] : i \in DOMAIN s}

IdleChrome == [called |-> FALSE, path |-> Unset, probed |-> <<>>]
IdlePrep == [calls |-> 0, copies |-> <<>>,
             last |-> [root |-> <<>>, outcome |-> "none", threw |-> FALSE,
                       returned |-> FALSE, notices |-> 0]]
IdleShot == [called |-> FALSE, srcWidth |-> 0, srcHeight |-> 0,
             kind |-> "none", width |-> 0, height |-> 0]

InitCred ==
    /\ platform \in Platforms
    /\ \E k \in EnvKeyValues, h \in HomeValues, x \in XdgValues :
         env = [NoEnv EXCEPT !["ANTHROPIC_API_KEY"] = k, !["HOME"] = h,
                             !["XDG_CONFIG_HOME"] = x]
    /\ IF platform = "linux"
       THEN files \in [Range(configPaths) -> FileStates]
       ELSE files = [p \in Range(configPaths) |-> [state |-> "absent", content |-> <<>>]]
    /\ cmdOut \in CmdOutcomes
    /\ credResult = NotCalled
    /\ exists = {} /\ chromeResult = IdleChrome
    /\ srcProfile = <<>> /\ workspace = <<>> /\ prepLog = IdlePrep
    /\ image = [width |-> 0, height |-> 0] /\ shotDir = FALSE
    /\ shotResult = IdleShot

ResolveCredential ==
    /\ credResult' = getAnthropicApiKey
    /\ UNCHANGED <<platform, env, files, cmdOut, chromeVars, prepVars, shotVars>>

NextCred == ResolveCredential
SpecCred == InitCred /\ [][NextCred]_vars

-----------------------------------------------------------------------------
(* Browser locator                                                         *)

MAC_CHROME   == <<"/Applications/Google Chrome.app/Contents/MacOS/Google Chrome">>
MAC_CHROMIUM == <<"/Applications/Chromium.app/Contents/MacOS/Chromium">>
WIN_CHROME   == <<"\\Google\\Chrome\\Application\\chrome.exe">>
WIN_CHROMIUM == <<"\\Chromium\\Application\\chrome.exe">>
PF    == <<"C:\\Program Files">>
PFX86 == <<"C:\\Program Files (x86)">>

\* bug variant: the open-source build is preferred on every platform
chromePathsChromiumFirst ==
    IF platform = "darwin"
    THEN << MAC_CHROMIUM, MAC_CHROME,
            Template(env["HOME"]) \o MAC_CHROMIUM,
            Template(env["HOME"]) \o MAC_CHROME >>
    ELSE IF platform = "win32"
    THEN << PF \o WIN_CHROMIUM, PFX86 \o WIN_CHROMIUM,
            PF \o WIN_CHROME, PFX86 \o WIN_CHROME,
            Template(env["LOCALAPPDATA"]) \o WIN_CHROME,
            Template(env["PROGRAMFILES"]) \o WIN_CHROME,
            Template(env["PROGRAMFILES(X86)"]) \o WIN_CHROME >>
    ELSE << <<"/usr/bin/chromium">>, <<"/usr/bin/chromium-browser">>,
            <<"/snap/bin/chromium">>, <<"/usr/local/bin/chromium">>,
            <<"/usr/bin/google-chrome">>, <<"/usr/bin/google-chrome-stable">>,
            <<"/usr/local/bin/google-chrome">>, <<"/opt/google/chrome/chrome">>,
            <<"/opt/google/chrome/google-chrome">> >>

\* the candidate list the platform branch pushes
chromePaths ==
    IF platform = "darwin"
    THEN << MAC_CHROME, MAC_CHROMIUM,
            Template(env["HOME"]) \o MAC_CHROME,
            Template(env["HOME"]) \o MAC_CHROMIUM >>
    ELSE IF platform = "win32"
    THEN << PF \o WIN_CHROME, PFX86 \o WIN_CHROME,
            Template(env["LOCALAPPDATA"]) \o WIN_CHROME,
            Template(env["PROGRAMFILES"]) \o WIN_CHROME,
            Template(env["PROGRAMFILES(X86)"]) \o WIN_CHROME,
            PF \o WIN_CHROMIUM, PFX86 \o WIN_CHROMIUM >>
    ELSE << <<"/usr/bin/google-chrome">>, <<"/usr/bin/google-chrome-stable">>,
            <<"/usr/bin/chromium">>, <<"/usr/bin/chromium-browser">>,
            <<"/snap/bin/chromium">>, <<"/usr/local/bin/google-chrome">>,
            <<"/usr/local/bin/chromium">>, <<"/opt/google/chrome/chrome">>,
            <<"/opt/google/chrome/google-chrome">> >>

\* fs.existsSync: false for the empty path, never throws
existsSync(path) == path # <<>> /\ path \in exists

\* for (const path of chromePaths) if (path && existsSync(path)) return path;
\* probed lists the positions for which existsSync was called
RECURSIVE FirstExisting(_, _, _)
FirstExisting(paths, i, probed) ==
    IF i > Len(paths)
    THEN [called |-> TRUE, path |-> Unset, probed |-> probed]
    ELSE IF paths[i] # <<>>
    THEN IF existsSync(paths[i])
         THEN [called |-> TRUE, path |-> Val(paths[i]), probed |-> Append(probed, i)]
         ELSE FirstExisting(paths, i + 1, Append(probed, i))
    ELSE FirstExisting(paths, i + 1, probed)

findLocalChrome == FirstExisting(chromePaths, 1, <<>>)

MacHomeValues == {Unset, Val(<<>>), Val(<<"/Users/u">>)}
LocalAppDataValues == {Unset, Val(<<>>), Val(<<"C:\\Users\\u\\AppData\\Local">>)}
ProgramFilesValues == {Unset, Val(<<>>), Val(PF)}
ProgramFilesX86Values == {Unset, Val(<<>>), Val(PFX86)}

InitChrome ==
    /\ platform \in Platforms
    /\ \E h \in MacHomeValues, l \in LocalAppDataValues,
          pf \in ProgramFilesValues, px \in ProgramFilesX86Values :
         /\ platform # "darwin" => h = Unset
         /\ platform # "win32" => (l = Unset /\ pf = Unset /\ px = Unset)
         /\ env = [NoEnv EXCEPT !["HOME"] = h, !["LOCALAPPDATA"] = l,
                                !["PROGRAMFILES"] = pf, !["PROGRAMFILES(X86)"] = px]
    /\ exists \in SUBSET Range(chromePaths)
    /\ chromeResult = IdleChrome
    /\ files = <<>> /\ cmdOut = [threw |-> TRUE, out |-> <<>>]
    /\ credResult = NotCalled
    /\ srcProfile = <<>> /\ workspace = <<>> /\ prepLog = IdlePrep
    /\ image = [width |-> 0, height |-> 0] /\ shotDir = FALSE
    /\ shotResult = IdleShot

LocateChrome ==
    /\ chromeResult' = findLocalChrome
    /\ UNCHANGED <<platform, env, credVars, exists, prepVars, shotVars>>

NextChrome == LocateChrome
SpecChrome == InitChrome /\ [][NextChrome]_vars

-----------------------------------------------------------------------------
(* Profile provisioner                                                     *)

MaxVer == 2      \* distinct contents the real profile goes through
MaxCalls == 3    \* prepareChromeProfile calls in one behaviour

Roots == {<<"/plugin">>, <<"/other">>}

getChromeUserDataDir ==
    IF platform = "darwin"
    THEN Template(env["HOME"]) \o <<"/Library/Application Support/Google/Chrome">>
    ELSE IF platform = "win32"
    THEN Template(env["LOCALAPPDATA"]) \o <<"\\Google\\Chrome\\User Data">>
    ELSE Template(env["HOME"]) \o <<"/.config/google-chrome">>

sourceDefaultProfile == Join(getChromeUserDataDir, <<"Default">>)
tempUserDataDir(pluginRoot) == Join(pluginRoot, <<".chrome-profile">>)

\* a directory: absent, or present with what its Default subdirectory holds
\* (ver 0: no Default; otherwise the copied content and whether all of it)
AbsentDir == [exists |-> FALSE, ver |-> 0, complete |-> TRUE]
EmptyDir  == [exists |-> TRUE, ver |-> 0, complete |-> TRUE]
CopyOf(v, whole) == [exists |-> TRUE, ver |-> v, complete |-> whole]

\* a call's record: its root, what it did, whether an exception reached the
\* caller, whether it returned, and the progress notices it printed
\* how the filesystem behaves during one call
IoOutcomes == {"ok", "mkdirFails", "copyFails", "killed"}

LogCall(root, outcome, threw, notices, copied) ==
    [calls |-> prepLog.calls + 1,
     copies |-> IF copied THEN [prepLog.copies EXCEPT ![root] = @ + 1]
                ELSE prepLog.copies,
     last |-> [root |-> root, outcome |-> outcome, threw |-> threw,
               returned |-> ~threw /\ outcome # "killed", notices |-> notices]]

\* bug variant: an existing workspace is refreshed when it is stale or partial
PrepareChromeProfileRefresh(pluginRoot, io) ==
    LET dest == tempUserDataDir(pluginRoot)
        src  == srcProfile[sourceDefaultProfile]
    IN
    /\ prepLog.calls < MaxCalls
    /\ srcProfile' = srcProfile
    /\ IF workspace[dest].exists
          /\ (src = 0 \/ (workspace[dest].ver = src /\ workspace[dest].complete))
       THEN /\ workspace' = workspace
            /\ prepLog' = LogCall(pluginRoot, "noop", FALSE, 0, FALSE)
       ELSE IF io = "mkdirFails" /\ ~workspace[dest].exists
       THEN /\ workspace' = workspace
            /\ prepLog' = LogCall(pluginRoot, "mkdirFailed", TRUE, 1, FALSE)
       ELSE IF src = 0
       THEN /\ workspace' = [workspace EXCEPT ![dest] = EmptyDir]
            /\ prepLog' = LogCall(pluginRoot, "fresh", FALSE, 2, FALSE)
       ELSE IF io \in {"copyFails", "killed"}
       THEN /\ workspace' = [workspace EXCEPT ![dest] = CopyOf(src, FALSE)]
            /\ prepLog' = LogCall(pluginRoot, IF io = "killed" THEN "killed" ELSE "copyFailed",
                                 io = "copyFails", 1, TRUE)
       ELSE /\ workspace' = [workspace EXCEPT ![dest] = CopyOf(src, TRUE)]
            /\ prepLog' = LogCall(pluginRoot, "copied", FALSE, 2, TRUE)

\* bug variant: a failed copy removes the directory it created
PrepareChromeProfileCleanup(pluginRoot, io) ==
    LET dest == tempUserDataDir(pluginRoot)
        src  == srcProfile[sourceDefaultProfile]
    IN
    /\ prepLog.calls < MaxCalls
    /\ srcProfile' = srcProfile
    /\ IF workspace[dest].exists
       THEN /\ workspace' = workspace
            /\ prepLog' = LogCall(pluginRoot, "noop", FALSE, 0, FALSE)
       ELSE IF io = "mkdirFails"
       THEN /\ workspace' = workspace
            /\ prepLog' = LogCall(pluginRoot, "mkdirFailed", TRUE, 1, FALSE)
       ELSE IF src = 0
       THEN /\ workspace' = [workspace EXCEPT ![dest] = EmptyDir]
            /\ prepLog' = LogCall(pluginRoot, "fresh", FALSE, 2, FALSE)
       ELSE IF io \in {"copyFails", "killed"}
       THEN /\ workspace' = [workspace EXCEPT ![dest] = AbsentDir]
            /\ prepLog' = LogCall(pluginRoot, IF io = "killed" THEN "killed" ELSE "copyFailed",
                                 io = "copyFails", 1, TRUE)
       ELSE /\ workspace' = [workspace EXCEPT ![dest] = CopyOf(src, TRUE)]
            /\ prepLog' = LogCall(pluginRoot, "copied", FALSE, 2, TRUE)

\* bug variant: the copy is skipped, the workspace is always left empty
PrepareChromeProfileNoCopy(pluginRoot, io) ==
    LET dest == tempUserDataDir(pluginRoot)
    IN
    /\ prepLog.calls < MaxCalls
    /\ srcProfile' = srcProfile
    /\ IF workspace[dest].exists
       THEN /\ workspace' = workspace
            /\ prepLog' = LogCall(pluginRoot, "noop", FALSE, 0, FALSE)
       ELSE IF io = "mkdirFails"
       THEN /\ workspace' = workspace
            /\ prepLog' = LogCall(pluginRoot, "mkdirFailed", TRUE, 1, FALSE)
       ELSE /\ workspace' = [workspace EXCEPT ![dest] = EmptyDir]
            /\ prepLog' = LogCall(pluginRoot, "fresh", FALSE, 2, FALSE)

\* prepareChromeProfile(pluginRoot), one whole call.  io says which of
\* mkdirSync and cpSync fails during it, or that the process is killed while
\* cpSync runs; it matters only where the call reaches that operation.
PrepareChromeProfile(pluginRoot, io) ==
    LET dest == tempUserDataDir(pluginRoot)
        src  == srcProfile[sourceDefaultProfile]
    IN
    /\ prepLog.calls < MaxCalls
    /\ srcProfile' = srcProfile
    /\ IF workspace[dest].exists                      \* existsSync(tempUserDataDir)
       THEN /\ workspace' = workspace
            /\ prepLog' = LogCall(pluginRoot, "noop", FALSE, 0, FALSE)
       ELSE IF io = "mkdirFails"                      \* mkdirSync throws
       THEN /\ workspace' = workspace
            /\ prepLog' = LogCall(pluginRoot, "mkdirFailed", TRUE, 1, FALSE)
       ELSE IF src = 0                                \* !existsSync(sourceDefaultProfile)
       THEN /\ workspace' = [workspace EXCEPT ![dest] = EmptyDir]
            /\ prepLog' = LogCall(pluginRoot, "fresh", FALSE, 2, FALSE)
       ELSE IF io \in {"copyFails", "killed"}         \* cpSync stops part-way
       THEN /\ workspace' = [workspace EXCEPT ![dest] = CopyOf(src, FALSE)]
            /\ prepLog' = LogCall(pluginRoot, IF io = "killed" THEN "killed" ELSE "copyFailed",
                                 io = "copyFails", 1, TRUE)
       ELSE /\ workspace' = [workspace EXCEPT ![dest] = CopyOf(src, TRUE)]
            /\ prepLog' = LogCall(pluginRoot, "copied", FALSE, 2, TRUE)

Prepare ==
    /\ \E root \in Roots, io \in IoOutcomes : PrepareChromeProfile(root, io)
    /\ UNCHANGED <<platform, env, credVars, chromeVars, shotVars>>

\* the real browser rewrites its profile (or creates it on its first run)
BrowserWritesProfile ==
    /\ srcProfile[sourceDefaultProfile] < MaxVer
    /\ srcProfile' = [srcProfile EXCEPT ![sourceDefaultProfile] = @ + 1]
    /\ UNCHANGED <<platform, env, credVars, chromeVars, workspace, prepLog, shotVars>>

InitPrep ==
    /\ platform \in Platforms
    /\ \E h \in {Unset, Val(<<"/home/u">>)} :
         env = [NoEnv EXCEPT !["HOME"] = h, !["LOCALAPPDATA"] = h]
    /\ srcProfile \in [{sourceDefaultProfile} -> 0..MaxVer]
    /\ workspace \in [{tempUserDataDir(r) : r \in Roots} -> {AbsentDir, EmptyDir}]
    /\ prepLog = [IdlePrep EXCEPT !.copies = [r \in Roots |-> 0]]
    /\ files = <<>> /\ cmdOut = [threw |-> TRUE, out |-> <<>>]
    /\ credResult = NotCalled
    /\ exists = {} /\ chromeResult = IdleChrome
    /\ image = [width |-> 0, height |-> 0] /\ shotDir = FALSE
    /\ shotResult = IdleShot

NextPrep == Prepare \/ BrowserWritesProfile
SpecPrep == InitPrep /\ [][NextPrep]_vars

-----------------------------------------------------------------------------
(* Capture service                                                         *)

MaxSize == 2000      \* the bound of the resize
MaxDim == 100000     \* the largest image side the browser hands back

\* The sides of the decoded PNG.  A PNG has no side of 0 pixels, so the
\* width && height test of the source always passes.
Dims == {1, 2, 999, 1999, 2000, 2001, 3000, 4000, 4001, MaxDim}

Max(a, b) == IF a >= b THEN a ELSE b

\* std::round of a / b for positive integers
RoundDiv(a, b) == (2 * a + b) \div (2 * b)

\* One side after .resize(2000, 2000, {fit: 'inside', withoutEnlargement:
\* true}): both sides shrink by the larger of w/2000 and h/2000, by no less
\* than 1 (no enlargement) and by no more than the side itself (no side
\* becomes 0).
ResizedSide(side, w, h) ==
    LET m == Max(Max(w, h), MaxSize) IN
    IF m <= MaxSize * side THEN RoundDiv(side * MaxSize, m) ELSE 1

\* bug variant: the image is resized only when both sides exceed the bound
NeedsResizeBoth(width, height) ==
    width # 0 /\ height # 0 /\ (width > MaxSize /\ height > MaxSize)

\* if (width && height && (width > 2000 || height > 2000))
NeedsResize(width, height) ==
    width # 0 /\ height # 0 /\ (width > MaxSize \/ height > MaxSize)

\* the buffer written to the file: the decoded one as it is, or a PNG
\* encoded anew from the resized image
finalBuffer(width, height) ==
    IF NeedsResize(width, height)
    THEN [kind |-> "png", width |-> ResizedSide(width, width, height),
          height |-> ResizedSide(height, width, height)]
    ELSE [kind |-> "raw", width |-> width, height |-> height]

\* takeScreenshot(page, pluginRoot), one whole call
TakeScreenshot ==
    /\ shotDir' = TRUE                      \* mkdirSync when it does not exist
    /\ shotResult' =
          LET b == finalBuffer(image.width, image.height) IN
          [called |-> TRUE, srcWidth |-> image.width, srcHeight |-> image.height,
           kind |-> b.kind, width |-> b.width, height |-> b.height]
    /\ UNCHANGED <<platform, env, credVars, chromeVars, prepVars, image>>

\* the page is rendered anew with another width or another height
Render ==
    /\ \E d \in Dims :
          \/ d # image.width /\ image' = [image EXCEPT !.width = d]
          \/ d # image.height /\ image' = [image EXCEPT !.height = d]
    /\ UNCHANGED <<platform, env, credVars, chromeVars, prepVars, shotDir, shotResult>>

InitShot ==
    /\ platform = "linux"
    /\ env = NoEnv
    /\ image \in [width : Dims, height : Dims]
    /\ shotDir \in BOOLEAN
    /\ shotResult = IdleShot
    /\ files = <<>> /\ cmdOut = [threw |-> TRUE, out |-> <<>>]
    /\ credResult = NotCalled
    /\ exists = {} /\ chromeResult = IdleChrome
    /\ srcProfile = <<>> /\ workspace = <<>> /\ prepLog = IdlePrep

NextShot == TakeScreenshot \/ Render
SpecShot == InitShot /\ [][NextShot]_vars

-----------------------------------------------------------------------------
(* Properties of the credential resolver, stated without the operators     *)
(* of the model: what counts as a credential is given by tables.           *)

KEY_TEXT == <<"sk-ant-", "abc">>
KEY_JSON == <<"sk-ant-", "json">>
KEY_STORE == <<"sk-ant-", "keychain">>

\* the credential a config file holds, or <<>> when it holds none
ExpectedFileKey(f) ==
    IF f.state # "file" THEN <<>>
    ELSE IF f.content \in {<<"sk-ant-", "abc">>, <<" ", "sk-ant-", "abc", "\n">>}
    THEN KEY_TEXT
    ELSE IF f.content = <<"{\"apiKey\":", "\"", "sk-ant-", "json", "\"", "}", "\n">>
    THEN KEY_JSON
    ELSE <<>>

\* the credential the secret-store command prints, or <<>>
ExpectedStoreKey ==
    IF ~cmdOut.threw /\ cmdOut.out = <<"sk-ant-", "keychain", "\n">>
    THEN KEY_STORE ELSE <<>>

EnvCredential == env["ANTHROPIC_API_KEY"]
EnvCredentialPresent == EnvCredential.set /\ Len(EnvCredential.val) > 0

HasPrefix(k) == Len(k) > 0 /\ k[1] = "sk-ant-"

\* C1 as claimed: every credential getAnthropicApiKey returns, whatever its
\* origin, is non-empty and starts with sk-ant-.
C1_EveryCredentialPrefixed ==
    (credResult.called /\ credResult.cred.set)
        => HasPrefix(credResult.cred.apiKey)

\* C1 amended: every credential returned is non-empty; one of origin
\* claude-code (the OS secret store or a config file) starts with sk-ant-;
\* one of origin env is the environment variable's value as it is, whatever
\* its prefix.
C1_StoreCredentialPrefixed ==
    (credResult.called /\ credResult.cred.set)
        => /\ Len(credResult.cred.apiKey) > 0
           /\ credResult.cred.source \in {"env", "claude-code"}
           /\ credResult.cred.source = "claude-code"
                 => HasPrefix(credResult.cred.apiKey)
           /\ credResult.cred.source = "env"
                 => credResult.cred.apiKey = EnvCredential.val

\* a secret-store credential was returned although the command printed text
\* around it and a JSON config file was tried and rejected before
C1_Witness ==
    /\ credResult.called /\ credResult.cred.set
    /\ credResult.cred.source = "claude-code"
    /\ credResult.cred.apiKey = KEY_STORE
    /\ platform = "linux" /\ Len(credResult.reads) > 0

\* C2: with the environment credential present (set to a non-empty string)
\* the call returns exactly that value with origin env, spawns no
\* subprocess, probes and reads no file; a call that spawned, probed or read
\* is a call without environment credential.
C2_EnvFastPath ==
    credResult.called =>
        /\ EnvCredentialPresent =>
              /\ credResult.cred = [set |-> TRUE, apiKey |-> EnvCredential.val,
                                    source |-> "env"]
              /\ credResult.spawned = 0
              /\ credResult.probes = <<>> /\ credResult.reads = <<>>
              /\ ~credResult.threw
        /\ (credResult.spawned > 0 \/ credResult.probes # <<>>
                \/ credResult.reads # <<>>) => ~EnvCredentialPresent

\* the environment credential wins although a config file and the secret
\* store both hold a credential
C2_Witness ==
    /\ credResult.called /\ EnvCredentialPresent
    /\ credResult.cred.source = "env"
    /\ platform = "linux"
    /\ ExpectedStoreKey # <<>>
    /\ \E p \in DOMAIN files : ExpectedFileKey(files[p]) # <<>>

\* every lookup source of the platform fails
AllSourcesFail ==
    /\ ExpectedStoreKey = <<>>
    /\ platform = "linux" => \A p \in DOMAIN files : ExpectedFileKey(files[p]) = <<>>

\* C3: getAnthropicApiKey never raises, and without environment credential
\* it returns null when every lookup source of the platform fails (command
\* failure, missing or unreadable file, malformed output).
C3_NeverRaises ==
    credResult.called =>
        /\ ~credResult.threw
        /\ (~EnvCredentialPresent /\ AllSourcesFail) => ~credResult.cred.set

\* null is returned after an unreadable file, a JSON file whose field is a
\* number and a command that fails
C3_Witness ==
    /\ credResult.called /\ ~credResult.cred.set /\ ~EnvCredentialPresent
    /\ platform = "linux" /\ cmdOut.threw
    /\ \E p, q \in DOMAIN files :
          /\ files[p].state = "unreadable"
          /\ files[q].content = <<"{\"apiKey\":", "5", "}">>

\* the three config files in their order
ExpectedConfigPaths ==
    LET home == IF env["HOME"].set THEN env["HOME"].val ELSE <<>>
        xdg  == IF env["XDG_CONFIG_HOME"].set /\ Len(env["XDG_CONFIG_HOME"].val) > 0
                THEN env["XDG_CONFIG_HOME"].val ELSE home \o <<".config">>
    IN << home \o <<".claude", "credentials">>,
          home \o <<".config", "claude-code", "credentials">>,
          xdg \o <<"claude-code", "credentials">> >>

FirstYielding ==
    LET good == {i \in 1..3 : ExpectedFileKey(files[ExpectedConfigPaths[i]]) # <<>>}
    IN IF good = {} THEN 0 ELSE CHOOSE i \in good : \A j \in good : i <= j

\* C7: on a Unix-like platform without environment credential the config
\* files are probed in the fixed order, the credential of the first file
\* that yields one is returned with origin claude-code, failing files are
\* skipped, and the secret-service command runs only if no file yields one.
C7_ConfigFilesInOrder ==
    (credResult.called /\ platform = "linux" /\ ~EnvCredentialPresent) =>
        IF FirstYielding > 0
        THEN /\ credResult.cred =
                  [set |-> TRUE, source |-> "claude-code",
                   apiKey |-> ExpectedFileKey(files[ExpectedConfigPaths[FirstYielding]])]
             /\ credResult.probes = SubSeq(ExpectedConfigPaths, 1, FirstYielding)
             /\ credResult.spawned = 0
        ELSE /\ credResult.probes = ExpectedConfigPaths
             /\ credResult.spawned = 1
             /\ credResult.cred =
                  IF ExpectedStoreKey # <<>>
                  THEN [set |-> TRUE, source |-> "claude-code", apiKey |-> ExpectedStoreKey]
                  ELSE [set |-> FALSE, apiKey |-> <<>>, source |-> "none"]

\* the first file is malformed and skipped, the second yields its JSON
\* field, the third (a different file holding another credential) and the
\* secret service are never consulted
C7_Witness ==
    /\ credResult.called /\ platform = "linux" /\ ~EnvCredentialPresent
    /\ FirstYielding = 2
    /\ files[ExpectedConfigPaths[1]].state = "file"
    /\ credResult.cred.apiKey = KEY_JSON
    /\ ExpectedConfigPaths[3] # ExpectedConfigPaths[2]
    /\ ExpectedFileKey(files[ExpectedConfigPaths[3]]) = KEY_TEXT
    /\ ExpectedStoreKey # <<>>
    /\ credResult.spawned = 0

-----------------------------------------------------------------------------
(* Properties of the browser locator                                       *)

EnvText(name) == IF env[name].set THEN env[name].val ELSE <<"undefined">>

\* the candidates of each platform in priority order, as the strings the
\* source builds
ExpectedCandidates ==
    IF platform = "darwin" THEN
      << <<"/Applications/Google Chrome.app/Contents/MacOS/Google Chrome">>,
         <<"/Applications/Chromium.app/Contents/MacOS/Chromium">>,
         EnvText("HOME") \o <<"/Applications/Google Chrome.app/Contents/MacOS/Google Chrome">>,
         EnvText("HOME") \o <<"/Applications/Chromium.app/Contents/MacOS/Chromium">> >>
    ELSE IF platform = "win32" THEN
      << <<"C:\\Program Files", "\\Google\\Chrome\\Application\\chrome.exe">>,
         <<"C:\\Program Files (x86)", "\\Google\\Chrome\\Application\\chrome.exe">>,
         EnvText("LOCALAPPDATA") \o <<"\\Google\\Chrome\\Application\\chrome.exe">>,
         EnvText("PROGRAMFILES") \o <<"\\Google\\Chrome\\Application\\chrome.exe">>,
         EnvText("PROGRAMFILES(X86)") \o <<"\\Google\\Chrome\\Application\\chrome.exe">>,
         <<"C:\\Program Files", "\\Chromium\\Application\\chrome.exe">>,
         <<"C:\\Program Files (x86)", "\\Chromium\\Application\\chrome.exe">> >>
    ELSE
      << <<"/usr/bin/google-chrome">>, <<"/usr/bin/google-chrome-stable">>,
         <<"/usr/bin/chromium">>, <<"/usr/bin/chromium-browser">>,
         <<"/snap/bin/chromium">>, <<"/usr/local/bin/google-chrome">>,
         <<"/usr/local/bin/chromium">>, <<"/opt/google/chrome/chrome">>,
         <<"/opt/google/chrome/google-chrome">> >>

\* the environment variable a candidate position is derived from, "" if none
DerivedFrom(i) ==
    IF platform = "darwin" /\ i \in {3, 4} THEN "HOME"
    ELSE IF platform = "win32" /\ i = 3 THEN "LOCALAPPDATA"
    ELSE IF platform = "win32" /\ i = 4 THEN "PROGRAMFILES"
    ELSE IF platform = "win32" /\ i = 5 THEN "PROGRAMFILES(X86)"
    ELSE ""

FirstOf(S) == CHOOSE i \in S : \A j \in S : i <= j

\* C5: findLocalChrome returns the first candidate, in the platform's
\* priority order, that exists, and undefined exactly when none exists; it
\* never returns a path that does not exist.
C5_FirstExistingCandidate ==
    chromeResult.called =>
        LET found == {i \in DOMAIN ExpectedCandidates : ExpectedCandidates[i] \in exists}
        IN /\ found = {} <=> ~chromeResult.path.set
           /\ found # {} => chromeResult.path.val = ExpectedCandidates[FirstOf(found)]
           /\ chromeResult.path.set => chromeResult.path.val \in exists

\* a lower-priority candidate is returned while a still lower one exists too
\* and the higher ones do not
C5_Witness ==
    /\ chromeResult.called /\ chromeResult.path.set
    /\ platform = "win32"
    /\ chromeResult.path.val = ExpectedCandidates[6]
    /\ ExpectedCandidates[7] \in exists
    /\ Len(chromeResult.probed) = 6

\* the positions whose environment variable is empty (unset or "")
EmptyDerived ==
    {i \in DOMAIN ExpectedCandidates :
        DerivedFrom(i) # "" /\ (~env[DerivedFrom(i)].set \/ env[DerivedFrom(i)].val = <<>>)}

\* C9 as claimed: a candidate derived from an environment variable that
\* resolves to an empty string is never probed, and the result is the first
\* existing one of the remaining candidates.
C9_EmptyEnvCandidateSkipped ==
    chromeResult.called =>
        LET rest  == DOMAIN ExpectedCandidates \ EmptyDerived
            found == {i \in rest : ExpectedCandidates[i] \in exists}
        IN /\ \A k \in DOMAIN chromeResult.probed : chromeResult.probed[k] \notin EmptyDerived
           /\ found = {} <=> ~chromeResult.path.set
           /\ found # {} => chromeResult.path.val = ExpectedCandidates[FirstOf(found)]

-----------------------------------------------------------------------------
(* Properties of the profile provisioner                                   *)

ProfileDir(r) == r \o <<".chrome-profile">>
SourceVer == srcProfile[sourceDefaultProfile]
\* this step is a prepareChromeProfile(r) call
PrepStep(r) == prepLog'.calls # prepLog.calls /\ prepLog'.last.root = r
Partial(d) == d.exists /\ ~d.complete

\* C4: a call made while <root>/.chrome-profile exists changes neither the
\* destination nor the source, prints no notice and copies nothing, whatever
\* the source has become; the recursive copy runs at most once per root.
C4_IdempotentByExistence ==
    [][\A r \in Roots : PrepStep(r) =>
          /\ workspace[ProfileDir(r)].exists =>
                /\ workspace' = workspace
                /\ srcProfile' = srcProfile
                /\ prepLog'.copies = prepLog.copies
                /\ prepLog'.last.notices = 0
                /\ prepLog'.last.returned
          /\ prepLog'.copies[r] <= 1]_vars

\* a call was a no-op on a complete copy that the source has since outgrown
C4_Witness ==
    /\ prepLog.calls >= 2
    /\ prepLog.last.returned /\ prepLog.last.notices = 0
    /\ prepLog.copies[prepLog.last.root] = 1
    /\ LET d == workspace[ProfileDir(prepLog.last.root)]
       IN d.exists /\ d.complete /\ d.ver > 0 /\ d.ver < SourceVer

\* C8 as claimed: a call made when the destination does not exist always
\* leaves it existing, holding a copy of Default when the source has one and
\* empty (without throwing) when it has none; the source is unchanged.
C8_AlwaysProvisioned ==
    [][\A r \in Roots : (PrepStep(r) /\ ~workspace[ProfileDir(r)].exists) =>
          /\ workspace'[ProfileDir(r)].exists
          /\ SourceVer > 0 =>
                workspace'[ProfileDir(r)] =
                    [exists |-> TRUE, ver |-> SourceVer, complete |-> TRUE]
          /\ SourceVer = 0 =>
                /\ workspace'[ProfileDir(r)] =
                       [exists |-> TRUE, ver |-> 0, complete |-> TRUE]
                /\ ~prepLog'.last.threw
          /\ srcProfile' = srcProfile]_vars

\* C8 amended: a call made when the destination does not exist and that
\* returns leaves it existing, holding a copy of Default when the source has
\* one and empty when it has none; a call in which mkdirSync or cpSync fails
\* throws and leaves the destination absent or incomplete; the source is
\* unchanged in every case.
C8_ProvisionedOnReturn ==
    [][\A r \in Roots : (PrepStep(r) /\ ~workspace[ProfileDir(r)].exists) =>
          /\ prepLog'.last.returned =>
                /\ SourceVer > 0 =>
                      workspace'[ProfileDir(r)] =
                          [exists |-> TRUE, ver |-> SourceVer, complete |-> TRUE]
                /\ SourceVer = 0 =>
                      workspace'[ProfileDir(r)] =
                          [exists |-> TRUE, ver |-> 0, complete |-> TRUE]
          /\ prepLog'.last.threw =>
                \/ ~workspace'[ProfileDir(r)].exists
                \/ Partial(workspace'[ProfileDir(r)])
          /\ srcProfile' = srcProfile]_vars

\* the last call created the workspace and copied the whole of a non-empty
\* source profile into it
C8_Witness ==
    /\ prepLog.last.returned /\ prepLog.last.notices = 2
    /\ prepLog.copies[prepLog.last.root] = 1
    /\ SourceVer > 0
    /\ workspace[ProfileDir(prepLog.last.root)] =
           [exists |-> TRUE, ver |-> SourceVer, complete |-> TRUE]

\* C10: a call that stops after mkdirSync and before cpSync has finished
\* leaves a partial directory (and throws when it failed rather than was
\* killed); a partial directory is never changed again, and every later call
\* on its root returns without copying, throwing or printing.
C10_PartialCopyIsPermanent ==
    [][\A r \in Roots :
          /\ (PrepStep(r) /\ prepLog'.last.outcome \in {"copyFailed", "killed"}) =>
                /\ Partial(workspace'[ProfileDir(r)])
                /\ prepLog'.last.outcome = "copyFailed" => prepLog'.last.threw
          /\ Partial(workspace[ProfileDir(r)]) =>
                /\ workspace'[ProfileDir(r)] = workspace[ProfileDir(r)]
                /\ PrepStep(r) =>
                      /\ prepLog'.last.returned
                      /\ prepLog'.last.notices = 0
                      /\ prepLog'.copies = prepLog.copies]_vars

\* a call returned as a no-op on a directory an earlier failed copy left
\* partial
C10_Witness ==
    /\ prepLog.calls >= 2
    /\ prepLog.last.outcome = "noop"
    /\ Partial(workspace[ProfileDir(prepLog.last.root)])
    /\ prepLog.copies[prepLog.last.root] = 1

-----------------------------------------------------------------------------
(* Properties of the capture service                                       *)

Abs(x) == IF x < 0 THEN -x ELSE x

\* C6: an image within 2000x2000 is written as the decoded buffer; an image
\* with a side above 2000 is written with both sides at most 2000, no side
\* larger than before, and the original aspect ratio up to the rounding of
\* each side to a whole pixel.
C6_SizeBound ==
    shotResult.called =>
        LET w == shotResult.srcWidth
            h == shotResult.srcHeight
            longest == IF w >= h THEN w ELSE h
        IN /\ (w <= 2000 /\ h <= 2000) =>
                /\ shotResult.kind = "raw"
                /\ shotResult.width = w /\ shotResult.height = h
           /\ (w > 2000 \/ h > 2000) =>
                /\ shotResult.kind = "png"
                /\ shotResult.width >= 1 /\ shotResult.height >= 1
                /\ shotResult.width <= 2000 /\ shotResult.height <= 2000
                /\ shotResult.width <= w /\ shotResult.height <= h
                /\ Abs(shotResult.width * h - shotResult.height * w) <= longest
                /\ (w = 4000 /\ h = 3000) =>
                      (shotResult.width = 2000 /\ shotResult.height = 1500)

\* a 4000x3000 capture was written as 2000x1500
C6_Witness ==
    /\ shotResult.called
    /\ shotResult.srcWidth = 4000 /\ shotResult.srcHeight = 3000
    /\ shotResult.kind = "png"
    /\ shotResult.width = 2000 /\ shotResult.height = 1500

====
